---------------------------- MODULE Spec2Model ----------------------------
(***************************************************************************)
(* Cat-and-mouse pursuit simulation (Frajola chases Ligeirinho).           *)
(*                                                                         *)
(* The model follows main.js (class Simulation) and the classes it drives: *)
(* Agent, Frajola, Ligeirinho, the three strategies, DetectionSystem,      *)
(* CollisionDetector, PhysicsEngine and StatsTracker.                      *)
(*                                                                         *)
(* Numbers.  The program computes in IEEE doubles; the model computes in   *)
(* fixed point: a length, speed or force r is the integer r * SCALE,       *)
(* every product or quotient is rounded to the nearest multiple of         *)
(* 1/SCALE, and Math.sqrt is the integer square root.  Factors that the    *)
(* program writes as decimals (sensitivity 0.9, damping 0.8, patrolSpeed   *)
(* 0.5, angular speed 0.05) are kept as hundredths.                        *)
(*                                                                         *)
(* Configuration.  CONFIG is a mutable global of the program (updateConfig *)
(* and importConfig write it) that the classes read when they are          *)
(* constructed.  It is a variable of the model, and the specification      *)
(* Spec starts from ReducedConfig: the default speeds in a corridor small  *)
(* enough for an attempt to last a dozen frames at most.                   *)
(*                                                                         *)
(* Left out: rendering, audio, the logger, the agents' trail, the          *)
(* collision history and the wall-clock times kept by StatsTracker; none   *)
(* of them is read by the code modelled here.                              *)
(***************************************************************************)
EXTENDS Integers, Sequences, FiniteSets, TLC

VARIABLES
    CONFIG,             \* the global configuration object
    config,             \* Simulation.config
    isRunning,          \* Simulation.isRunning
    isPaused,           \* Simulation.isPaused
    currentStrategy,    \* Simulation.currentStrategy
    captureInProgress,  \* Simulation.captureInProgress
    escapeInProgress,   \* Simulation.escapeInProgress
    rafPending,         \* number of requestAnimationFrame callbacks not yet run
    timers,             \* pending setTimeout callbacks, by the handler that set them
    frajola,            \* the chaser (or NULL)
    ligeirinho,         \* the target (or NULL)
    sensitivity,        \* DetectionSystem.sensitivity, in hundredths
    detectionHistory,   \* DetectionSystem.detectionHistory
    strategies,         \* Simulation.strategies: each strategy object's fields
    stats,              \* StatsTracker: attempts, captures, number of escapes
    lastOp,             \* the handler that ran last
    updateExit,         \* how the call of Simulation.update in the last step ended
    call,               \* the last call of calculate made on a strategy directly
    detectCall,         \* the last call of DetectionSystem.detect made directly
    configCall,         \* the last call of updateConfig or importConfig
    captureCall,        \* the last call of checkCapture made directly
    uiEvents            \* resets, strategy and slider changes, forces applied so far

vars == <<CONFIG, config, isRunning, isPaused, currentStrategy, captureInProgress,
          escapeInProgress, rafPending, timers, frajola, ligeirinho,
          sensitivity, detectionHistory, strategies, stats, lastOp, updateExit,
          call, detectCall, uiEvents, configCall, captureCall>>

---------------------------------------------------------------------------
(* Bounds of the model *)

\* Start and the restart timers stop once StatsTracker.attempts reaches this.
MaxAttempts == 2

\* The reset button, the strategy selector and the detection slider are used
\* at most this many times together (play/pause is bounded by MaxAttempts);
\* a client of the classes resets the detection system or applies a force
\* to the target at most this many times.
MaxUiEvents == 1

\* The draws of Math.random() in one call of spawnAtRandomEdge: the edge
\* (Math.floor(Math.random() * 4)) and the two later values, in hundredths.
Spawns == {<<0, 50, 50>>, <<0, 27, 50>>, <<1, 20, 30>>}

\* The values the detection slider delivers (e.target.value).
SliderValues == {10, 200}

\* A client of the strategy classes stops calling calculate once the Patrol
\* strategy's patrolTime has reached this.
MaxPatrolTime == 100

\* The chasers such a client passes to calculate: position and velocity.
ChaserStates == {<<48, 12, 0, 0>>, <<20, 6, -3, 4>>}

---------------------------------------------------------------------------
(* Fixed-point arithmetic *)

SCALE == 10 * 10

Abs(a) == IF a < 0 THEN -a ELSE a

Min(a, b) == IF a < b THEN a ELSE b

Max(a, b) == IF a > b THEN a ELSE b

\* a / b rounded to the nearest integer, halves away from zero (b > 0)
RDiv(a, b) ==
    IF a >= 0 THEN (2 * a + b) \div (2 * b)
              ELSE -((2 * (-a) + b) \div (2 * b))

RECURSIVE SqrtIter(_, _)
\* body(x) with x computed once
Bind(x, body(_)) == CHOOSE r \in {body(y) : y \in {x}} : TRUE

\* Newton's iteration downwards from x >= sqrt(n); the next iterate y is
\* bound as a value, so that each step computes it once
SqrtIter(n, x) ==
    CHOOSE r \in {IF y >= x THEN x ELSE SqrtIter(n, y) :
                     y \in {(x + n \div x) \div 2}} : TRUE

\* Math.sqrt: the floor of the square root of n, 0 <= n < 2^31
Sqrt(n) ==
    LET root(m) ==
            IF m = 0 THEN 0
            ELSE SqrtIter(m, IF m < 65536
                             THEN (IF m < 256 THEN 16
                                   ELSE IF m < 4096 THEN 64 ELSE 256)
                             ELSE IF m < 16777216
                                  THEN (IF m < 1048576 THEN 1024 ELSE 4096)
                                  ELSE (IF m < 268435456 THEN 16384 ELSE 46341))
    IN  Bind(n, root)

\* a variant of clamp that forgets the upper limit
clampBelow(value, min, max) == Max(value, min)

clamp(value, min, max) == Min(Max(value, min), max)

map(value, inMin, inMax, outMin, outMax) ==
    RDiv((value - inMin) * (outMax - outMin), inMax - inMin) + outMin

---------------------------------------------------------------------------
(* Vector2D *)

Vec(x, y) == [x |-> x, y |-> y]

Zero == Vec(0, 0)

add(v, w) == Vec(v.x + w.x, v.y + w.y)

subtract(v, w) == Vec(v.x - w.x, v.y - w.y)

\* multiply by the scalar n / d
multiply(v, n, d) == Vec(RDiv(v.x * n, d), RDiv(v.y * n, d))

\* the product, in units of SCALE * SCALE
dot(v, w) == v.x * w.x + v.y * w.y

magnitudeSquared(v) == v.x * v.x + v.y * v.y

\* components beyond 30000 are halved thrice before squaring, so that the
\* sum of squares stays a 32-bit integer
magnitude(v) ==
    LET root(k) == k * Sqrt(magnitudeSquared(Vec(v.x \div k, v.y \div k)))
    IN  root(IF Max(Abs(v.x), Abs(v.y)) <= 30000 THEN 1 ELSE 8)

\* normalize() followed by multiply(mag): a zero vector stays zero
setMagnitude(v, mag) ==
    LET scaled(m) ==
            IF m > 0 THEN Vec(RDiv(v.x * mag, m), RDiv(v.y * mag, m)) ELSE v
    IN  Bind(magnitude(v), scaled)

\* a variant of limit that leaves every vector as it is
limitNever(v, max) == v

limit(v, max) ==
    LET limited(w) ==
            IF magnitudeSquared(w) > max * max THEN setMagnitude(w, max) ELSE w
    IN  Bind(v, limited)

distance(v, w) == magnitude(subtract(w, v))

---------------------------------------------------------------------------
(* config.js *)

\* a length or speed given in whole units, as a fixed-point number
FP(n) == n * SCALE

\* The configuration Spec runs: the default speeds (8 and 9) and detection
\* sensitivities of config.js in a corridor of 96 x 24 instead of 1400 x 900,
\* the chaser starting at its centre as in config.js.  captureDistance
\* exceeds boundaryMargin plus half the chaser's size, so that the chaser,
\* which constrainToBounds keeps inside the canvas, can be within capture
\* distance of a target that has left the expanded rectangle (with the
\* defaults, 60 < 100 + 75, it cannot).  Factors are hundredths.
ReducedConfig ==
    [canvas     |-> [width |-> 96, height |-> 24],
     target     |-> [size |-> 8, defaultSpeed |-> 8],
     chaser     |-> [size |-> 8, defaultSpeed |-> 9, detectionRadius |-> 30,
                     startX |-> 48, startY |-> 12],
     detection  |-> [baseSensitivity |-> 90, minSensitivity |-> 30,
                     maxSensitivity |-> 150],
     physics    |-> [captureDistance |-> 20, boundaryMargin |-> 8],
     simulation |-> [defaultFPS |-> 60, minFPS |-> 30, maxFPS |-> 120],
     strategies |-> [predictive |-> [lookahead |-> 10],
                     patrol |-> [patrolSpeed |-> 50, patrolRadius |-> 8,
                                 patrolAngularSpeed |-> 5]]]

---------------------------------------------------------------------------
(* Agent.js *)

\* a reference that is null or undefined
NULL == [null |-> TRUE]

IsNull(ref) == "null" \in DOMAIN ref

\* Agent's constructor: mass and maxForce are never passed by the
\* subclasses, so they take the defaults 1 and 0.5
Agent(x, y, size, maxSpeed) ==
    [position     |-> Vec(x, y),
     velocity     |-> Zero,
     acceleration |-> Zero,
     size         |-> size,
     mass         |-> 1,
     maxSpeed     |-> maxSpeed,
     maxForce     |-> SCALE \div 2,
     active       |-> TRUE]

\* Agent.update
AgentUpdate(a, deltaTime) ==
    IF ~a.active THEN a
    ELSE LET moved(v) ==
                 [a EXCEPT !.velocity = v,
                           !.position = add(a.position, multiply(v, deltaTime, 1)),
                           !.acceleration = Zero]
         IN  Bind(limit(add(a.velocity, a.acceleration), a.maxSpeed), moved)

\* Agent.applyForce
applyForce(a, force) ==
    [a EXCEPT !.acceleration = add(a.acceleration, multiply(force, 1, a.mass))]

distanceTo(a, b) == distance(a.position, b.position)

---------------------------------------------------------------------------
(* Ligeirinho.js *)

Ligeirinho(x, y, speed, cfg) ==
    Agent(x, y, FP(cfg.target.size), speed)
        @@ [type |-> "target", spawnEdge |-> "none", escapeAttempts |-> 0]

Edges == <<"top", "right", "bottom", "left">>

\* Ligeirinho.spawnAtRandomEdge: edge is Math.floor(Math.random() * 4), r1
\* and r2 are the two later values of Math.random(), in hundredths; the
\* direction (vx, vy) is kept in ten-thousandths
spawnAtRandomEdge(l, canvasWidth, canvasHeight, edge, r1, r2) ==
    LET along == (r2 - 50) * 2 * SCALE
        x  == CASE edge = 0 -> RDiv(r1 * canvasWidth, 100)
                [] edge = 1 -> canvasWidth
                [] edge = 2 -> RDiv(r1 * canvasWidth, 100)
                [] OTHER    -> 0
        y  == CASE edge = 0 -> 0
                [] edge = 1 -> RDiv(r1 * canvasHeight, 100)
                [] edge = 2 -> canvasHeight
                [] OTHER    -> RDiv(r1 * canvasHeight, 100)
        vx == CASE edge = 0 -> along
                [] edge = 1 -> -SCALE * SCALE
                [] edge = 2 -> along
                [] OTHER    -> SCALE * SCALE
        vy == CASE edge = 0 -> SCALE * SCALE
                [] edge = 1 -> along
                [] edge = 2 -> -SCALE * SCALE
                [] OTHER    -> along
    IN  [l EXCEPT !.spawnEdge = Edges[edge + 1],
                  !.position = Vec(x, y),
                  !.velocity = setMagnitude(Vec(vx, vy), l.maxSpeed)]

\* a variant of Ligeirinho.update that leaves the target where it is
LigeirinhoStays(l, deltaTime) == l

\* Ligeirinho.update
LigeirinhoUpdate(l, deltaTime) ==
    LET constantSpeed(a) ==
            [a EXCEPT !.velocity = setMagnitude(a.velocity, a.maxSpeed)]
    IN  Bind(AgentUpdate(l, deltaTime), constantSpeed)

\* a variant of the test with closed comparisons: a target on the edge of
\* the expanded rectangle counts as escaped
hasEscapedClosed(l, canvasWidth, canvasHeight, margin) ==
    \/ l.position.x <= -margin
    \/ l.position.x >= canvasWidth + margin
    \/ l.position.y <= -margin
    \/ l.position.y >= canvasHeight + margin

\* the test of Ligeirinho.hasEscaped
hasEscaped(l, canvasWidth, canvasHeight, margin) ==
    \/ l.position.x < -margin
    \/ l.position.x > canvasWidth + margin
    \/ l.position.y < -margin
    \/ l.position.y > canvasHeight + margin

---------------------------------------------------------------------------
(* DetectionSystem.js *)

maxHistoryLength == 60

\* a variant of radiusDetection that misses a target exactly on the radius
radiusDetectionStrict(chaser, target, sens) ==
    distanceTo(chaser, target) < RDiv(chaser.detectionRadius * sens, 100)

\* DetectionSystem.radiusDetection
radiusDetection(chaser, target, sens) ==
    LET effectiveRadius == RDiv(chaser.detectionRadius * sens, 100)
    IN  distanceTo(chaser, target) <= effectiveRadius

\* a variant of updateDetectionHistory that drops the newest entry of a
\* full history instead of the oldest
updateDetectionHistoryNewest(history, detected) ==
    IF Len(history) >= maxHistoryLength THEN history
    ELSE Append(history, detected)

\* DetectionSystem.updateDetectionHistory
updateDetectionHistory(history, detected) ==
    LET pushed == Append(history, detected)
    IN  IF Len(pushed) > maxHistoryLength THEN Tail(pushed) ELSE pushed

\* DetectionSystem.detect with detectionMethod 'radius' (setDetectionMethod
\* has no caller): the result and the history it leaves
detect(chaser, target, sens, history) ==
    IF IsNull(chaser) \/ IsNull(target) \/ ~target.active
    THEN [detected |-> FALSE, history |-> history]
    ELSE LET result(detected) ==
                 [detected |-> detected,
                  history  |-> updateDetectionHistory(history, detected)]
         IN  Bind(radiusDetection(chaser, target, sens), result)

\* DetectionSystem.setSensitivity
setSensitivity(value, cfg) ==
    clamp(value, cfg.detection.minSensitivity, cfg.detection.maxSensitivity)

---------------------------------------------------------------------------
(* Strategy.js, DirectStrategy.js, PredictiveStrategy.js, PatrolStrategy.js *)

StrategyNames == {"direct", "predictive", "patrol"}

\* the strategy objects as their constructors leave them
NewStrategies(cfg) ==
    [direct     |-> [active |-> TRUE],
     predictive |-> [active |-> TRUE,
                     lookahead |-> FP(cfg.strategies.predictive.lookahead),
                     adaptiveLookahead |-> TRUE],
     patrol     |-> [active |-> TRUE,
                     patrolSpeed  |-> cfg.strategies.patrol.patrolSpeed,
                     patrolRadius |-> FP(cfg.strategies.patrol.patrolRadius),
                     angularSpeed |-> cfg.strategies.patrol.patrolAngularSpeed,
                     state        |-> "patrol",
                     patrolTime   |-> 0,
                     centerX      |-> FP(cfg.canvas.width) \div 2,
                     centerY      |-> FP(cfg.canvas.height) \div 2]]

\* Strategy.seek
seek(currentPos, currentVel, targetPos, maxSpeed, maxForce) ==
    LET steer(desired) == limit(subtract(desired, currentVel), maxForce)
    IN  Bind(setMagnitude(subtract(targetPos, currentPos), maxSpeed), steer)

\* a variant of DirectStrategy.calculate that seeks only a detected target
DirectCalculateDetected(s, chaser, target, targetDetected) ==
    IF ~s.active \/ IsNull(target) \/ ~targetDetected
    THEN [steering |-> Zero, strategy |-> s]
    ELSE [steering |-> seek(chaser.position, chaser.velocity, target.position,
                            chaser.maxSpeed, chaser.maxForce),
          strategy |-> s]

\* a variant of DirectStrategy.calculate that does not test this.active
DirectCalculateActive(s, chaser, target, targetDetected) ==
    IF IsNull(target)
    THEN [steering |-> Zero, strategy |-> s]
    ELSE [steering |-> seek(chaser.position, chaser.velocity, target.position,
                            chaser.maxSpeed, chaser.maxForce),
          strategy |-> s]

\* DirectStrategy.calculate
DirectCalculate(s, chaser, target, targetDetected) ==
    IF ~s.active \/ IsNull(target)
    THEN [steering |-> Zero, strategy |-> s]
    ELSE [steering |-> seek(chaser.position, chaser.velocity, target.position,
                            chaser.maxSpeed, chaser.maxForce),
          strategy |-> s]

\* PredictiveStrategy.calculateAdaptiveLookahead: the four numbers are the
\* literals of the method (distances in pixels, lookahead in frames)
calculateAdaptiveLookahead(dist) ==
    map(clamp(dist, FP(0), FP(400)), FP(0), FP(400), FP(3), FP(20))

\* a variant of predictFuturePosition that does not clamp the prediction
predictFuturePositionUnclamped(target, lookahead, cfg) ==
    add(target.position, multiply(target.velocity, lookahead, SCALE))

\* a variant of predictFuturePosition that steps against the velocity
predictPastPosition(target, lookahead, cfg) ==
    LET past == subtract(target.position,
                         multiply(target.velocity, lookahead, SCALE))
    IN  Vec(clamp(past.x, 0, FP(cfg.canvas.width)),
            clamp(past.y, 0, FP(cfg.canvas.height)))

\* PredictiveStrategy.predictFuturePosition
predictFuturePosition(target, lookahead, cfg) ==
    LET clamped(prediction) ==
            Vec(clamp(prediction.x, 0, FP(cfg.canvas.width)),
                clamp(prediction.y, 0, FP(cfg.canvas.height)))
    IN  Bind(add(target.position, multiply(target.velocity, lookahead, SCALE)),
             clamped)

\* PredictiveStrategy.calculate
PredictiveCalculate(s, chaser, target, targetDetected, cfg) ==
    IF ~s.active \/ IsNull(target)
    THEN [steering |-> Zero, strategy |-> s]
    ELSE LET effectiveLookahead(dist) ==
                 IF s.adaptiveLookahead THEN calculateAdaptiveLookahead(dist)
                                        ELSE s.lookahead
             targetPos(lookahead) ==
                 IF targetDetected
                 THEN predictFuturePosition(target, lookahead, cfg)
                 ELSE target.position
             steer(towards) ==
                 [steering |-> seek(chaser.position, chaser.velocity, towards,
                                    chaser.maxSpeed, chaser.maxForce),
                  strategy |-> s]
         IN  Bind(Bind(Bind(distanceTo(chaser, target), effectiveLookahead),
                       targetPos),
                  steer)

\* Math.cos(k * 0.05) and Math.sin(k * 0.05) in thousandths, k = 0 .. 255
CosTable ==
  <<1000, 999, 995, 989, 980, 969, 955, 939, 921, 900, 878, 853, 825, 796, 765, 732,
    697, 660, 622, 582, 540, 498, 454, 408, 362, 315, 267, 219, 170, 121, 71, 21,
    -29, -79, -129, -178, -227, -276, -323, -370, -416, -461, -505, -547, -589, -628, -666, -703,
    -737, -770, -801, -830, -857, -882, -904, -924, -942, -958, -971, -982, -990, -996, -999, -1000,
    -998, -994, -987, -978, -967, -953, -936, -918, -897, -874, -848, -821, -791, -759, -726, -691,
    -654, -615, -575, -533, -490, -446, -401, -355, -307, -259, -211, -162, -112, -62, -12, 38,
    87, 137, 187, 235, 284, 331, 378, 424, 469, 512, 554, 595, 635, 673, 709, 743,
    776, 806, 835, 861, 886, 908, 927, 945, 960, 973, 983, 991, 997, 999, 1000, 998,
    993, 986, 977, 965, 950, 933, 914, 893, 869, 844, 816, 786, 754, 720, 685, 647,
    608, 568, 526, 483, 439, 393, 347, 299, 251, 203, 153, 104, 54, 4, -46, -96,
    -146, -195, -244, -292, -339, -386, -431, -476, -519, -561, -602, -641, -679, -715, -749, -781,
    -811, -839, -865, -889, -911, -931, -948, -962, -975, -985, -992, -997, -1000, -1000, -997, -992,
    -985, -975, -962, -948, -930, -911, -889, -865, -839, -811, -781, -748, -714, -678, -641, -602,
    -561, -519, -476, -431, -385, -339, -291, -243, -194, -145, -95, -46, 4, 54, 104, 154,
    203, 252, 300, 347, 393, 439, 483, 526, 568, 609, 648, 685, 720, 754, 786, 816,
    844, 870, 893, 915, 934, 950, 965, 977, 986, 993, 998, 1000, 999, 997, 991, 983>>

SinTable ==
  <<0, 50, 100, 149, 199, 247, 296, 343, 389, 435, 479, 523, 565, 605, 644, 682,
    717, 751, 783, 813, 841, 867, 891, 913, 932, 949, 964, 976, 985, 993, 997, 1000,
    1000, 997, 992, 984, 974, 961, 946, 929, 909, 887, 863, 837, 808, 778, 746, 711,
    675, 638, 598, 558, 516, 472, 427, 382, 335, 287, 239, 190, 141, 91, 42, -8,
    -58, -108, -158, -207, -256, -304, -351, -397, -443, -487, -530, -572, -612, -651, -688, -723,
    -757, -789, -818, -846, -872, -895, -916, -935, -952, -966, -978, -987, -994, -998, -1000, -999,
    -996, -991, -982, -972, -959, -944, -926, -906, -883, -859, -832, -804, -773, -740, -706, -669,
    -631, -592, -551, -508, -465, -420, -374, -327, -279, -231, -182, -133, -83, -33, 17, 67,
    117, 166, 215, 264, 312, 359, 405, 450, 494, 537, 578, 618, 657, 694, 729, 762,
    794, 823, 850, 876, 899, 920, 938, 954, 968, 979, 988, 995, 999, 1000, 999, 995,
    989, 981, 970, 957, 941, 923, 902, 879, 855, 828, 798, 767, 734, 700, 663, 625,
    585, 544, 501, 457, 412, 366, 319, 271, 223, 174, 124, 75, 25, -25, -75, -125,
    -174, -223, -272, -320, -366, -413, -458, -501, -544, -585, -625, -663, -700, -735, -768, -799,
    -828, -855, -880, -902, -923, -941, -957, -970, -981, -989, -995, -999, -1000, -999, -995, -988,
    -979, -968, -954, -938, -919, -899, -875, -850, -823, -793, -762, -729, -694, -657, -618, -578,
    -537, -494, -450, -404, -358, -311, -263, -215, -166, -116, -66, -16, 34, 84, 133, 183>>

\* Math.cos and Math.sin of patrolTime * angularSpeed; the tables step by
\* 0.05, the only angular speed the program sets
Cos(patrolTime, angularSpeed) == CosTable[RDiv(patrolTime * angularSpeed, 5) + 1]

Sin(patrolTime, angularSpeed) == SinTable[RDiv(patrolTime * angularSpeed, 5) + 1]

\* a variant of updateState with hysteresis: pursuit, once begun, is kept
updateStateSticky(s, targetDetected) ==
    [s EXCEPT !.state = IF targetDetected THEN "pursue" ELSE @]

\* PatrolStrategy.updateState
updateState(s, targetDetected) ==
    [s EXCEPT !.state = IF targetDetected THEN "pursue" ELSE "patrol"]

\* PatrolStrategy.patrolBehavior
patrolBehavior(s, chaser) ==
    LET targetX == s.centerX
                   + RDiv(Cos(s.patrolTime, s.angularSpeed) * s.patrolRadius, 1000)
        targetY == s.centerY
                   + RDiv(Sin(s.patrolTime, s.angularSpeed) * s.patrolRadius, 1000)
        desired == setMagnitude(subtract(Vec(targetX, targetY), chaser.position),
                                RDiv(chaser.maxSpeed * s.patrolSpeed, 100))
    IN  limit(subtract(desired, chaser.velocity), chaser.maxForce)

\* PatrolStrategy.pursueBehavior
pursueBehavior(chaser, target) ==
    seek(chaser.position, chaser.velocity, target.position,
         chaser.maxSpeed, chaser.maxForce)

\* a variant of PatrolStrategy.calculate that advances patrolTime on every
\* call of an active strategy
PatrolCalculateAlways(s, chaser, target, targetDetected) ==
    IF ~s.active
    THEN [steering |-> Zero, strategy |-> s]
    ELSE LET u == updateState(s, targetDetected)
         IN  [steering |-> IF ~IsNull(target)
                                /\ (u.state = "pursue" \/ targetDetected)
                             THEN pursueBehavior(chaser, target)
                             ELSE patrolBehavior(u, chaser),
              strategy |-> [u EXCEPT !.patrolTime = u.patrolTime + 1]]

\* PatrolStrategy.calculate
PatrolCalculate(s, chaser, target, targetDetected) ==
    IF ~s.active
    THEN [steering |-> Zero, strategy |-> s]
    ELSE LET u == updateState(s, targetDetected)
         IN  IF ~IsNull(target) /\ (u.state = "pursue" \/ targetDetected)
             THEN [steering |-> pursueBehavior(chaser, target), strategy |-> u]
             ELSE [steering |-> patrolBehavior(u, chaser),
                   strategy |-> [u EXCEPT !.patrolTime = u.patrolTime + 1]]

\* strategy.calculate(chaser, target, targetDetected), by the class of the
\* strategy object: the force it returns and the fields it leaves
calculate(name, s, chaser, target, targetDetected, cfg) ==
    CASE name = "direct"     -> DirectCalculate(s, chaser, target, targetDetected)
      [] name = "predictive" -> PredictiveCalculate(s, chaser, target,
                                                    targetDetected, cfg)
      [] OTHER               -> PatrolCalculate(s, chaser, target, targetDetected)

\* Strategy.activate / Strategy.deactivate
setActive(s, flag) == [s EXCEPT !.active = flag]

\* PatrolStrategy.resetPatrolTime
resetPatrolTime(s) == [s EXCEPT !.patrolTime = 0]

---------------------------------------------------------------------------
(* Frajola.js *)

Frajola(x, y, speed, cfg) ==
    Agent(x, y, FP(cfg.chaser.size), speed)
        @@ [type |-> "chaser",
            detectionRadius    |-> FP(cfg.chaser.detectionRadius),
            target             |-> "null",
            targetDetected     |-> FALSE,
            currentPursuitTime |-> 0,
            strategy           |-> "null"]

\* Frajola.update past the detection: calculate is called with the flag it
\* is handed, its force applied, the chaser integrated and the pursuit time
\* counted in deltaTime (the program divides the sum by defaultFPS).  The
\* result holds the chaser, the strategy objects and the force calculated
\* (NULL when the chaser has no strategy).
FrajolaSteer(f, targetDetected, target, deltaTime, strats, cfg) ==
    LET timed(moved) ==
            [moved EXCEPT !.currentPursuitTime =
                IF moved.targetDetected THEN @ + deltaTime ELSE @]
        steered(c) ==
            [frajola    |-> Bind(AgentUpdate(IF f.strategy = "null" THEN f
                                             ELSE applyForce(f, c.steering),
                                             deltaTime), timed),
             strategies |-> IF f.strategy = "null" THEN strats
                            ELSE [strats EXCEPT ![f.strategy] = c.strategy],
             steering   |-> c.steering]
    IN  Bind(IF f.strategy = "null"
             THEN [steering |-> NULL, strategy |-> NULL]
             ELSE calculate(f.strategy, strats[f.strategy], f, target,
                            targetDetected, cfg), steered)

\* a variant of Frajola.update that hands calculate the flag of the frame
\* before
FrajolaUpdateStale(f, target, deltaTime, sens, history, strats, cfg) ==
    IF ~f.active \/ f.target = "null"
    THEN [frajola |-> f, history |-> history, strategies |-> strats,
          steering |-> NULL]
    ELSE LET detected(d) ==
                 FrajolaSteer([f EXCEPT !.targetDetected = d.detected],
                              f.targetDetected, target, deltaTime, strats, cfg)
                     @@ [history |-> d.history]
         IN  Bind(detect(f, target, sens, history), detected)

\* Frajola.update(deltaTime, detectionSystem), the target being the object
\* frajola.target refers to: the detection result is stored in
\* targetDetected, and calculate is handed this.targetDetected
FrajolaUpdate(f, target, deltaTime, sens, history, strats, cfg) ==
    IF ~f.active \/ f.target = "null"
    THEN [frajola |-> f, history |-> history, strategies |-> strats,
          steering |-> NULL]
    ELSE LET detected(d) ==
                 FrajolaSteer([f EXCEPT !.targetDetected = d.detected],
                              d.detected, target, deltaTime, strats, cfg)
                     @@ [history |-> d.history]
         IN  Bind(detect(f, target, sens, history), detected)

\* the test of Frajola.attemptCapture(captureDistance), target being the
\* object frajola.target refers to; Simulation never calls it
attemptCapture(f, target, captureDistance) ==
    IF f.target = "null" \/ ~f.targetDetected THEN FALSE
    ELSE distanceTo(f, target) < captureDistance

---------------------------------------------------------------------------
(* PhysicsEngine.js, CollisionDetector.js *)

\* PhysicsEngine.constrainToBounds(agent) with the default damping 0.8; the
\* four tests run in turn, each on what the one before left
constrainLow(a, axis, halfSize) ==
    IF a.position[axis] < halfSize
    THEN [a EXCEPT !.position[axis] = halfSize,
                   !.velocity[axis] = RDiv(a.velocity[axis] * (-80), 100)]
    ELSE a

constrainHigh(a, axis, extent, halfSize) ==
    IF a.position[axis] > extent - halfSize
    THEN [a EXCEPT !.position[axis] = extent - halfSize,
                   !.velocity[axis] = RDiv(a.velocity[axis] * (-80), 100)]
    ELSE a

constrainToBounds(a, cfg) ==
    LET halfSize == a.size \div 2
        bottom(top)  == constrainHigh(top, "y", FP(cfg.canvas.height), halfSize)
        top(right)   == Bind(constrainLow(right, "y", halfSize), bottom)
        right(left)  == Bind(constrainHigh(left, "x", FP(cfg.canvas.width),
                                           halfSize), top)
    IN  Bind(constrainLow(a, "x", halfSize), right)

\* PhysicsEngine.isOutOfBounds(agent)
isOutOfBounds(agent, cfg) ==
    \/ agent.position.x < -FP(cfg.physics.boundaryMargin)
    \/ agent.position.x > FP(cfg.canvas.width) + FP(cfg.physics.boundaryMargin)
    \/ agent.position.y < -FP(cfg.physics.boundaryMargin)
    \/ agent.position.y > FP(cfg.canvas.height) + FP(cfg.physics.boundaryMargin)

\* a variant of checkCapture that never reports a capture
checkCaptureNever(chaser, target, cfg) == FALSE

\* a variant of checkCapture that asks for the chaser's targetDetected
\* flag, as Frajola.attemptCapture does
checkCaptureDetected(chaser, target, cfg) ==
    IF IsNull(chaser) \/ IsNull(target) \/ ~target.active THEN FALSE
    ELSE attemptCapture(chaser, target, FP(cfg.physics.captureDistance))

\* the test of CollisionDetector.checkCapture
checkCapture(chaser, target, cfg) ==
    IF IsNull(chaser) \/ IsNull(target) \/ ~target.active THEN FALSE
    ELSE distanceTo(chaser, target) < FP(cfg.physics.captureDistance)

---------------------------------------------------------------------------
(* StatsTracker.js *)

NewStats == [attempts |-> 0, captures |-> 0, escapes |-> 0]

\* StatsTracker.startAttempt
startAttempt(st) == [st EXCEPT !.attempts = @ + 1]

\* StatsTracker.recordCapture
recordCapture(st) == [st EXCEPT !.captures = @ + 1]

\* StatsTracker.recordEscape: escapes is escapeTimes.length
recordEscape(st) == [st EXCEPT !.escapes = @ + 1]

\* the attempts, captures and escapes figures of StatsTracker.getStats
getStats(st) ==
    [attempts |-> st.attempts, captures |-> st.captures,
     escapes |-> st.attempts - st.captures]

---------------------------------------------------------------------------
(* main.js: class Simulation *)

NoTimers == [capture |-> 0, escape |-> 0]

\* no strategy or detection has been called except by Frajola.update
NoCall == NULL

\* Simulation.createAgents: the pair of agents it leaves; the new Frajola
\* has no strategy yet
createAgents(simConfig, cfg, edge, r1, r2) ==
    [ligeirinho |-> spawnAtRandomEdge(Ligeirinho(0, 0, simConfig.targetSpeed, cfg),
                                      FP(cfg.canvas.width), FP(cfg.canvas.height),
                                      edge, r1, r2),
     frajola    |-> [Frajola(FP(cfg.chaser.startX), FP(cfg.chaser.startY),
                             simConfig.chaserSpeed, cfg)
                        EXCEPT !.target = "ligeirinho"]]

\* Frajola.setStrategy
setStrategy(f, name) == [f EXCEPT !.strategy = name]

\* a variant of the terminal checks without the return after handleCapture
ResolveBoth(f, l, cfg) ==
    [capture |-> checkCapture(f, l, cfg),
     escape  |-> hasEscaped(l, FP(cfg.canvas.width), FP(cfg.canvas.height),
                            FP(cfg.physics.boundaryMargin))]

\* the terminal checks of Simulation.update, read off the positions the
\* frame's integration left: which of handleCapture and handleEscape run
Resolve(f, l, cfg) ==
    LET checked(captured) ==
            [capture |-> captured,
             escape  |-> ~captured
                         /\ hasEscaped(l, FP(cfg.canvas.width),
                                       FP(cfg.canvas.height),
                                       FP(cfg.physics.boundaryMargin))]
    IN  Bind(checkCapture(f, l, cfg), checked)

\* a variant of the test under which update always returns early
FrozenAlways(capturing, escaping) == TRUE

\* a variant of the test that forgets escapeInProgress
FrozenByCapture(capturing, escaping) == capturing

\* whether Simulation.update returns before touching the agents
Frozen(capturing, escaping) == capturing \/ escaping

\* one frame of Simulation.update past the freeze test: Frajola.update,
\* Ligeirinho.update, constrainToBounds, in the order of the method
Step(f, l, sens, history, strats, cfg) ==
    LET constrained(fu) ==
            [fu EXCEPT !.frajola = constrainToBounds(fu.frajola, cfg)]
                @@ [ligeirinho |-> LigeirinhoUpdate(l, 1)]
    IN  Bind(FrajolaUpdate(f, l, 1, sens, history, strats, cfg), constrained)

\* Simulation.update, st being the statistics it starts from.  updateExit
\* names the return it took: "frozen" (the early return), "capture",
\* "escape", or "continue" (the end of the method).  hasEscaped counts the
\* escape in escapeAttempts when its test holds.
update(st) ==
    IF Frozen(captureInProgress, escapeInProgress)
    THEN /\ stats' = st
         /\ updateExit' = "frozen"
         /\ UNCHANGED <<frajola, ligeirinho, detectionHistory, strategies,
                        captureInProgress, escapeInProgress, timers>>
    ELSE LET afterCapture(r) == IF r.capture THEN recordCapture(st) ELSE st
             checks(s, r) ==
                 /\ frajola' = s.frajola
                 /\ ligeirinho' =
                        IF r.escape
                        THEN [s.ligeirinho EXCEPT !.escapeAttempts = @ + 1]
                        ELSE s.ligeirinho
                 /\ detectionHistory' = s.history
                 /\ strategies' = s.strategies
                 /\ captureInProgress' = r.capture
                 /\ escapeInProgress' = r.escape
                 /\ stats' = IF r.escape THEN recordEscape(afterCapture(r))
                                         ELSE afterCapture(r)
                 /\ timers' =
                        [capture |-> timers.capture + (IF r.capture THEN 1 ELSE 0),
                         escape  |-> timers.escape + (IF r.escape THEN 1 ELSE 0)]
                 /\ updateExit' = IF r.capture THEN "capture"
                                  ELSE IF r.escape THEN "escape" ELSE "continue"
         IN  \E s \in {Step(frajola, ligeirinho, sensitivity, detectionHistory,
                          strategies, CONFIG)} :
                 \E r \in {Resolve(s.frajola, s.ligeirinho, CONFIG)} :
                     checks(s, r)

InitWith(strategy) ==
    /\ CONFIG = ReducedConfig
    /\ config = [targetSpeed |-> FP(CONFIG.target.defaultSpeed),
                 chaserSpeed |-> FP(CONFIG.chaser.defaultSpeed),
                 detectionSensitivity |-> CONFIG.detection.baseSensitivity]
    /\ isRunning = FALSE
    /\ isPaused = FALSE
    /\ currentStrategy = strategy
    /\ captureInProgress = FALSE
    /\ escapeInProgress = FALSE
    /\ rafPending = 0
    /\ timers = NoTimers
    /\ \E draw \in Spawns :
          LET created(agents) ==
                  /\ ligeirinho = agents.ligeirinho
                  /\ frajola = setStrategy(agents.frajola, currentStrategy)
          IN  created(createAgents(config, CONFIG, draw[1], draw[2], draw[3]))
    /\ sensitivity = CONFIG.detection.baseSensitivity
    /\ detectionHistory = <<>>
    /\ strategies = NewStrategies(CONFIG)
    /\ stats = NewStats
    /\ lastOp = "init"
    /\ updateExit = "none"
    /\ call = NoCall
    /\ detectCall = NoCall
    /\ configCall = NoCall
    /\ captureCall = NoCall
    /\ uiEvents = 0

\* the page as loaded: init selects the Direct strategy
Init == InitWith("direct")

\* Simulation.start (togglePlayPause calls it when not running; called
\* while running it returns at once): loop() runs its first frame inside
Start ==
    /\ ~isRunning
    /\ stats.attempts < MaxAttempts
    /\ isRunning' = TRUE
    /\ isPaused' = FALSE
    /\ update(startAttempt(stats))
    /\ rafPending' = rafPending + 1
    /\ lastOp' = "start"
    /\ UNCHANGED <<CONFIG, config, currentStrategy, sensitivity, call,
                   detectCall, uiEvents, configCall, captureCall>>

\* Simulation.pause (togglePlayPause calls it when running)
Pause ==
    /\ isRunning
    /\ isPaused' = TRUE
    /\ isRunning' = FALSE
    /\ lastOp' = "pause"
    /\ updateExit' = "none"
    /\ UNCHANGED <<CONFIG, config, currentStrategy, captureInProgress,
                   escapeInProgress, rafPending, timers, frajola, ligeirinho,
                   sensitivity, detectionHistory, strategies, stats, call,
                   detectCall, uiEvents, configCall, captureCall>>

\* Simulation.reset
Reset ==
    /\ uiEvents < MaxUiEvents
    /\ uiEvents' = uiEvents + 1
    /\ isPaused' = TRUE
    /\ isRunning' = FALSE
    /\ \E draw \in Spawns :
          LET created(agents) ==
                  /\ ligeirinho' = agents.ligeirinho
                  /\ frajola' = agents.frajola
          IN  created(createAgents(config, CONFIG, draw[1], draw[2], draw[3]))
    /\ stats' = NewStats
    /\ detectionHistory' = <<>>
    /\ lastOp' = "reset"
    /\ updateExit' = "none"
    /\ UNCHANGED <<CONFIG, config, currentStrategy, captureInProgress,
                   escapeInProgress, rafPending, timers, sensitivity,
                   strategies, call, detectCall, configCall, captureCall>>

\* a requestAnimationFrame callback runs Simulation.loop
Frame ==
    /\ rafPending > 0
    /\ IF isRunning
       THEN /\ update(stats)
            /\ rafPending' = rafPending
       ELSE /\ rafPending' = rafPending - 1
            /\ updateExit' = "none"
            /\ UNCHANGED <<frajola, ligeirinho, detectionHistory, strategies,
                           captureInProgress, escapeInProgress, timers, stats>>
    /\ lastOp' = "frame"
    /\ UNCHANGED <<CONFIG, config, isRunning, isPaused, currentStrategy,
                   sensitivity, call, detectCall, uiEvents, configCall,
                   captureCall>>

\* the setTimeout callback of handleCapture (kind "capture") or of
\* handleEscape (kind "escape")
Restart(kind) ==
    /\ timers[kind] > 0
    /\ stats.attempts < MaxAttempts
    /\ timers' = [timers EXCEPT ![kind] = @ - 1]
    /\ \E draw \in Spawns :
          LET created(agents) ==
                  /\ ligeirinho' = agents.ligeirinho
                  /\ frajola' = setStrategy(agents.frajola, currentStrategy)
          IN  created(createAgents(config, CONFIG, draw[1], draw[2], draw[3]))
    /\ stats' = startAttempt(stats)
    /\ captureInProgress' = IF kind = "capture" THEN FALSE ELSE captureInProgress
    /\ escapeInProgress' = IF kind = "escape" THEN FALSE ELSE escapeInProgress
    /\ lastOp' = "restart"
    /\ updateExit' = "none"
    /\ UNCHANGED <<CONFIG, config, isRunning, isPaused, currentStrategy,
                   rafPending, sensitivity, detectionHistory, strategies,
                   call, detectCall, uiEvents, configCall, captureCall>>

CaptureRestart == Restart("capture")

EscapeRestart == Restart("escape")

\* Simulation.setStrategy, from the strategy selector
SetStrategy ==
    /\ uiEvents < MaxUiEvents
    /\ uiEvents' = uiEvents + 1
    /\ \E name \in StrategyNames :
          /\ currentStrategy' = name
          /\ frajola' = setStrategy(frajola, name)
    /\ lastOp' = "setStrategy"
    /\ updateExit' = "none"
    /\ UNCHANGED <<CONFIG, config, isRunning, isPaused, captureInProgress,
                   escapeInProgress, rafPending, timers, ligeirinho,
                   sensitivity, detectionHistory, strategies, stats, call,
                   detectCall, configCall, captureCall>>

\* the change listener of the detection slider
SetDetection ==
    /\ uiEvents < MaxUiEvents
    /\ uiEvents' = uiEvents + 1
    /\ \E value \in SliderValues :
          /\ config' = [config EXCEPT !.detectionSensitivity = value]
          /\ sensitivity' = setSensitivity(value, CONFIG)
    /\ lastOp' = "setDetection"
    /\ updateExit' = "none"
    /\ UNCHANGED <<CONFIG, isRunning, isPaused, currentStrategy,
                   captureInProgress, escapeInProgress, rafPending, timers,
                   frajola, ligeirinho, detectionHistory, strategies, stats,
                   call, detectCall, configCall, captureCall>>

Next ==
    \/ Start
    \/ Pause
    \/ Reset
    \/ Frame
    \/ CaptureRestart
    \/ EscapeRestart
    \/ SetStrategy
    \/ SetDetection

Spec == Init /\ [][Next]_vars

---------------------------------------------------------------------------
(* The strategy classes called directly: a client holding the simulation's *)
(* strategy objects calls calculate with a chaser, with the target or with *)
(* no target, and with either flag, and activates and deactivates them.    *)

\* the chaser the client passes from now on
Place ==
    /\ \E c \in ChaserStates :
          /\ frajola' = [frajola EXCEPT !.position = Vec(FP(c[1]), FP(c[2])),
                                        !.velocity = Vec(FP(c[3]), FP(c[4]))]
          /\ frajola' # frajola
    /\ call' = NoCall
    /\ lastOp' = "place"
    /\ UNCHANGED <<CONFIG, config, isRunning, isPaused, currentStrategy,
                   captureInProgress, escapeInProgress, rafPending, timers,
                   ligeirinho, sensitivity, detectionHistory, strategies,
                   stats, updateExit, detectCall, uiEvents, configCall,
                   captureCall>>

\* strategy.calculate(chaser, target, targetDetected); call keeps the
\* arguments, the strategy's fields before the call and the force returned
Calculate ==
    /\ strategies.patrol.patrolTime < MaxPatrolTime
    /\ \E name \in StrategyNames, target \in {"ligeirinho", "null"},
          targetDetected \in BOOLEAN :
          LET returned(c) ==
                  /\ strategies' = [strategies EXCEPT ![name] = c.strategy]
                  /\ call' = [strategy |-> name, target |-> target,
                              targetDetected |-> targetDetected,
                              before |-> strategies[name],
                              steering |-> c.steering]
          IN  returned(calculate(name, strategies[name], frajola,
                                 IF target = "null" THEN NULL ELSE ligeirinho,
                                 targetDetected, CONFIG))
    /\ lastOp' = "calculate"
    /\ UNCHANGED <<CONFIG, config, isRunning, isPaused, currentStrategy,
                   captureInProgress, escapeInProgress, rafPending, timers,
                   frajola, ligeirinho, sensitivity, detectionHistory, stats,
                   updateExit, detectCall, uiEvents, configCall, captureCall>>

\* Strategy.activate (flag TRUE) and Strategy.deactivate (flag FALSE)
SetActive(flag) ==
    /\ \E name \in StrategyNames :
          /\ strategies[name].active # flag
          /\ strategies' = [strategies EXCEPT ![name] = setActive(@, flag)]
    /\ call' = NoCall
    /\ lastOp' = IF flag THEN "activate" ELSE "deactivate"
    /\ UNCHANGED <<CONFIG, config, isRunning, isPaused, currentStrategy,
                   captureInProgress, escapeInProgress, rafPending, timers,
                   frajola, ligeirinho, sensitivity, detectionHistory, stats,
                   updateExit, detectCall, uiEvents, configCall, captureCall>>

Activate == SetActive(TRUE)

Deactivate == SetActive(FALSE)

StrategyNext ==
    \/ Place
    \/ Calculate
    \/ Activate
    \/ Deactivate

StrategySpec == Init /\ [][StrategyNext]_vars

---------------------------------------------------------------------------
(* Scenes a client of the classes builds: the simulation's objects as      *)
(* their constructors leave them under configuration cfg, with the chaser  *)
(* placed by setPosition and setVelocity at c and the target at t.         *)

\* the targets a client passes: position and velocity, in whole units
TargetStates ==
    {<<60, 12, 5, 0>>, <<96, 12, 8, 0>>, <<100, 12, 8, 0>>, <<48, 12, 0, -8>>,
     <<448, 12, -8, 0>>, <<500, 12, -8, 0>>, <<75, 12, -8, 0>>, <<60, 12, 0, 0>>}

\* Agent.setPosition and Agent.setVelocity
setKinematics(a, k) ==
    [a EXCEPT !.position = Vec(FP(k[1]), FP(k[2])),
              !.velocity = Vec(FP(k[3]), FP(k[4]))]

SceneWith(cfg, c, t, strategy) ==
    /\ CONFIG = cfg
    /\ config = [targetSpeed |-> FP(cfg.target.defaultSpeed),
                 chaserSpeed |-> FP(cfg.chaser.defaultSpeed),
                 detectionSensitivity |-> cfg.detection.baseSensitivity]
    /\ isRunning = FALSE
    /\ isPaused = FALSE
    /\ currentStrategy = IF strategy = "null" THEN "direct" ELSE strategy
    /\ captureInProgress = FALSE
    /\ escapeInProgress = FALSE
    /\ rafPending = 0
    /\ timers = NoTimers
    /\ ligeirinho = setKinematics(Ligeirinho(0, 0, FP(cfg.target.defaultSpeed),
                                             cfg), t)
    /\ frajola = setKinematics(
                     [setStrategy(Frajola(FP(cfg.chaser.startX),
                                          FP(cfg.chaser.startY),
                                          FP(cfg.chaser.defaultSpeed), cfg),
                                  strategy)
                         EXCEPT !.target = "ligeirinho"], c)
    /\ sensitivity = cfg.detection.baseSensitivity
    /\ detectionHistory = <<>>
    /\ strategies = NewStrategies(cfg)
    /\ stats = NewStats
    /\ lastOp = "init"
    /\ updateExit = "none"
    /\ call = NoCall
    /\ detectCall = NoCall
    /\ configCall = NoCall
    /\ captureCall = NoCall
    /\ uiEvents = 0

\* the scene with the Direct strategy set on the chaser
Scene(cfg, c, t) == SceneWith(cfg, c, t, "direct")

---------------------------------------------------------------------------
(* The strategies called over a range of kinematics: a client builds a     *)
(* scene and calls calculate on the strategy objects, with the target or   *)
(* with no target, and with either flag.                                   *)

SteeringInit ==
    \E c \in ChaserStates, t \in TargetStates : Scene(ReducedConfig, c, t)

SteeringNext == Calculate

SteeringSpec == SteeringInit /\ [][SteeringNext]_vars

---------------------------------------------------------------------------
(* The detection system called directly: a client writes                   *)
(* detection.baseSensitivity with updateConfig, constructs the             *)
(* DetectionSystem, and then calls detect with and without the agents,     *)
(* setSensitivity through the slider, and reset.                           *)

\* updateConfig(path, value), path being 'section.key': any value is stored;
\* a path through a section that does not exist changes nothing
updateConfig(cfg, section, key, value) ==
    IF section \in DOMAIN cfg THEN [cfg EXCEPT ![section][key] = value] ELSE cfg

\* the values of detection.baseSensitivity at construction, in hundredths:
\* the default of config.js and one written by updateConfig
BaseSensitivities == {90, 200}

\* the targets of the scenes, as in TargetStates: one exactly on the radius
\* of the default sensitivity (27 pixels from the chaser), one just beyond
DetectionTargets == {<<75, 12, -8, 0>>, <<76, 12, -8, 0>>}

\* the arguments of a call of detect: the chaser or null, and the target,
\* null, or the target with active = false
DetectArguments ==
    {<<"frajola", "ligeirinho">>, <<"null", "ligeirinho">>,
     <<"frajola", "null">>, <<"frajola", "inactive">>}

DetectionInit ==
    \E b \in BaseSensitivities, t \in DetectionTargets :
        Scene(updateConfig(ReducedConfig, "detection", "baseSensitivity", b),
              <<48, 12, 0, 0>>, t)

\* a call of DetectionSystem.detect(chaser, target)
Detect ==
    /\ \E args \in DetectArguments :
          LET returned(d) ==
                  /\ detectionHistory' = d.history
                  /\ detectCall' = [chaser |-> args[1], target |-> args[2],
                                    before |-> detectionHistory,
                                    detected |-> d.detected]
          IN  returned(detect(IF args[1] = "null" THEN NULL ELSE frajola,
                              CASE args[2] = "null" -> NULL
                                [] args[2] = "inactive" ->
                                       [ligeirinho EXCEPT !.active = FALSE]
                                [] OTHER -> ligeirinho,
                              sensitivity, detectionHistory))
    /\ lastOp' = "detect"
    /\ UNCHANGED <<CONFIG, config, isRunning, isPaused, currentStrategy,
                   captureInProgress, escapeInProgress, rafPending, timers,
                   frajola, ligeirinho, sensitivity, strategies, stats,
                   updateExit, call, uiEvents, configCall, captureCall>>

\* DetectionSystem.reset
DetectionReset ==
    /\ uiEvents < MaxUiEvents
    /\ uiEvents' = uiEvents + 1
    /\ detectionHistory' = <<>>
    /\ lastOp' = "detectionReset"
    /\ UNCHANGED <<CONFIG, config, isRunning, isPaused, currentStrategy,
                   captureInProgress, escapeInProgress, rafPending, timers,
                   frajola, ligeirinho, sensitivity, strategies, stats,
                   updateExit, call, detectCall, configCall, captureCall>>

DetectionNext ==
    \/ Detect
    \/ SetDetection
    \/ DetectionReset

DetectionSpec == DetectionInit /\ [][DetectionNext]_vars

---------------------------------------------------------------------------
(* config.js called directly: a client calls updateConfig and importConfig *)
(* with valid and invalid values.                                          *)

\* The client makes at most this many calls of updateConfig and
\* importConfig together.
MaxConfigCalls == 2

\* validateConfig, on the configuration cfg
validateConfig(cfg) ==
    /\ ~(cfg.canvas.width <= 0 \/ cfg.canvas.height <= 0)
    /\ ~(cfg.target.size <= 0 \/ cfg.chaser.size <= 0)
    /\ ~(cfg.target.defaultSpeed <= 0 \/ cfg.chaser.defaultSpeed <= 0)
    /\ ~(cfg.simulation.defaultFPS < cfg.simulation.minFPS
         \/ cfg.simulation.defaultFPS > cfg.simulation.maxFPS)

\* what updateConfig returns: false only for a path through a missing
\* section
updateConfigReturns(cfg, section) == section \in DOMAIN cfg

\* Object.assign(CONFIG, newConfig): the sections of newConfig replace those
\* of the configuration whole
ObjectAssign(cfg, newConfig) ==
    [k \in DOMAIN cfg |-> IF k \in DOMAIN newConfig THEN newConfig[k] ELSE cfg[k]]

\* importConfig(jsonString), json being what JSON.parse makes of the string
\* (NULL when it throws): the configuration left and the boolean returned
importConfig(cfg, json) ==
    IF IsNull(json) THEN [config |-> cfg, ok |-> FALSE]
    ELSE LET assigned(c) == [config |-> c, ok |-> validateConfig(c)]
         IN  assigned(ObjectAssign(cfg, json))

\* the paths and values handed to updateConfig
ConfigPaths ==
    {<<"canvas", "width">>, <<"target", "size">>, <<"chaser", "defaultSpeed">>,
     <<"simulation", "defaultFPS">>, <<"nosuch", "key">>}

ConfigValues == {0, -8, 48}

\* the documents handed to importConfig, parsed: sections with values that
\* validateConfig refuses, a valid one, and a string that does not parse
ConfigImports ==
    {[canvas |-> [width |-> 0, height |-> 24]],
     [target |-> [size |-> 8, defaultSpeed |-> -8]],
     [simulation |-> [defaultFPS |-> 200, minFPS |-> 30, maxFPS |-> 120]],
     [canvas |-> [width |-> 64, height |-> 32]],
     NULL}

ConfigInit == Scene(ReducedConfig, <<48, 12, 0, 0>>, <<60, 12, 5, 0>>)

\* a call of updateConfig(path, value)
UpdateConfig ==
    /\ uiEvents < MaxConfigCalls
    /\ uiEvents' = uiEvents + 1
    /\ \E path \in ConfigPaths, value \in ConfigValues :
          /\ CONFIG' = updateConfig(CONFIG, path[1], path[2], value)
          /\ configCall' =
                 [op |-> "updateConfig", before |-> CONFIG,
                  requested |-> updateConfig(CONFIG, path[1], path[2], value),
                  ok |-> updateConfigReturns(CONFIG, path[1])]
    /\ lastOp' = "updateConfig"
    /\ UNCHANGED <<config, isRunning, isPaused, currentStrategy,
                   captureInProgress, escapeInProgress, rafPending, timers,
                   frajola, ligeirinho, sensitivity, detectionHistory,
                   strategies, stats, updateExit, call, detectCall,
                   captureCall>>

\* a call of importConfig(jsonString)
ImportConfig ==
    /\ uiEvents < MaxConfigCalls
    /\ uiEvents' = uiEvents + 1
    /\ \E json \in ConfigImports :
          LET returned(r) ==
                  /\ CONFIG' = r.config
                  /\ configCall' =
                         [op |-> "importConfig", before |-> CONFIG,
                          requested |-> IF IsNull(json) THEN CONFIG
                                        ELSE ObjectAssign(CONFIG, json),
                          ok |-> r.ok]
          IN  returned(importConfig(CONFIG, json))
    /\ lastOp' = "importConfig"
    /\ UNCHANGED <<config, isRunning, isPaused, currentStrategy,
                   captureInProgress, escapeInProgress, rafPending, timers,
                   frajola, ligeirinho, sensitivity, detectionHistory,
                   strategies, stats, updateExit, call, detectCall,
                   captureCall>>

ConfigNext ==
    \/ UpdateConfig
    \/ ImportConfig

ConfigSpec == ConfigInit /\ [][ConfigNext]_vars

---------------------------------------------------------------------------
(* Detection and capture asked about agents whose active flag a client has *)
(* cleared: the client assigns active, and calls DetectionSystem.detect    *)
(* and CollisionDetector.checkCapture.                                     *)

\* the targets of the scenes: within capture distance of the chaser, within
\* the detection radius only, and beyond both
ActivityTargets == {<<60, 12, 5, 0>>, <<75, 12, -8, 0>>, <<100, 12, 8, 0>>}

ActivityInit ==
    \E t \in ActivityTargets : Scene(ReducedConfig, <<48, 12, 0, 0>>, t)

\* agent.active = flag, assigned by the client
SetAgentActive ==
    /\ uiEvents < MaxUiEvents
    /\ uiEvents' = uiEvents + 1
    /\ \E flag \in BOOLEAN :
          \/ /\ frajola' = [frajola EXCEPT !.active = flag]
             /\ UNCHANGED ligeirinho
          \/ /\ ligeirinho' = [ligeirinho EXCEPT !.active = flag]
             /\ UNCHANGED frajola
    /\ lastOp' = "setAgentActive"
    /\ UNCHANGED <<CONFIG, config, isRunning, isPaused, currentStrategy,
                   captureInProgress, escapeInProgress, rafPending, timers,
                   sensitivity, detectionHistory, strategies, stats,
                   updateExit, call, detectCall, configCall, captureCall>>

\* a call of CollisionDetector.checkCapture(chaser, target)
CheckCapture ==
    /\ \E args \in DetectArguments :
          captureCall' =
              [chaser |-> args[1], target |-> args[2],
               captured |->
                   checkCapture(IF args[1] = "null" THEN NULL ELSE frajola,
                                CASE args[2] = "null" -> NULL
                                  [] args[2] = "inactive" ->
                                         [ligeirinho EXCEPT !.active = FALSE]
                                  [] OTHER -> ligeirinho,
                                CONFIG)]
    /\ lastOp' = "checkCapture"
    /\ UNCHANGED <<CONFIG, config, isRunning, isPaused, currentStrategy,
                   captureInProgress, escapeInProgress, rafPending, timers,
                   frajola, ligeirinho, sensitivity, detectionHistory,
                   strategies, stats, updateExit, call, detectCall, configCall,
                   uiEvents>>

ActivityNext ==
    \/ SetAgentActive
    \/ Detect
    \/ CheckCapture

ActivitySpec == ActivityInit /\ [][ActivityNext]_vars

---------------------------------------------------------------------------
(* The target integrated on its own: a client places a Ligeirinho with a   *)
(* velocity (a new Ligeirinho has velocity zero), applies forces to it     *)
(* with applyForce and calls update while it has not escaped.              *)

\* the forces applied, in pixels per frame squared: among them the
\* opposites of the velocities (-8, 0) and (8, 0) of TargetStates
TargetForces ==
    {Vec(FP(8), 0), Vec(FP(-8), 0), Vec(0, FP(3)), Vec(FP(-20), FP(5))}

TargetInit ==
    \E t \in TargetStates : Scene(ReducedConfig, <<48, 12, 0, 0>>, t)

\* ligeirinho.applyForce(force)
ApplyForce ==
    /\ uiEvents < MaxUiEvents
    /\ uiEvents' = uiEvents + 1
    /\ \E force \in TargetForces :
          ligeirinho' = applyForce(ligeirinho, force)
    /\ lastOp' = "applyForce"
    /\ UNCHANGED <<CONFIG, config, isRunning, isPaused, currentStrategy,
                   captureInProgress, escapeInProgress, rafPending, timers,
                   frajola, sensitivity, detectionHistory, strategies, stats,
                   updateExit, call, detectCall, configCall, captureCall>>

\* ligeirinho.update(1)
TargetUpdate ==
    /\ ~hasEscaped(ligeirinho, FP(CONFIG.canvas.width),
                   FP(CONFIG.canvas.height), FP(CONFIG.physics.boundaryMargin))
    /\ ligeirinho' = LigeirinhoUpdate(ligeirinho, 1)
    /\ lastOp' = "targetUpdate"
    /\ UNCHANGED <<CONFIG, config, isRunning, isPaused, currentStrategy,
                   captureInProgress, escapeInProgress, rafPending, timers,
                   frajola, sensitivity, detectionHistory, strategies, stats,
                   updateExit, call, detectCall, uiEvents, configCall,
                   captureCall>>

TargetNext ==
    \/ ApplyForce
    \/ TargetUpdate

TargetSpec == TargetInit /\ [][TargetNext]_vars

---------------------------------------------------------------------------
(* The simulation loop run on placed agents in the arena of config.js: a   *)
(* client places the chaser and the target 1000 pixels apart with the      *)
(* Direct strategy, or the target on an edge moving outward with a chaser  *)
(* that has no strategy and stays at the centre, and starts the loop.      *)
(* The browser keeps delivering animation frames.                          *)

\* the values of config.js
DefaultConfig ==
    [canvas     |-> [width |-> 1400, height |-> 900],
     target     |-> [size |-> 80, defaultSpeed |-> 8],
     chaser     |-> [size |-> 150, defaultSpeed |-> 9, detectionRadius |-> 300,
                     startX |-> 700, startY |-> 450],
     detection  |-> [baseSensitivity |-> 90, minSensitivity |-> 30,
                     maxSensitivity |-> 150],
     physics    |-> [captureDistance |-> 60, boundaryMargin |-> 100],
     simulation |-> [defaultFPS |-> 60, minFPS |-> 30, maxFPS |-> 120],
     strategies |-> [predictive |-> [lookahead |-> 10],
                     patrol |-> [patrolSpeed |-> 50, patrolRadius |-> 100,
                                 patrolAngularSpeed |-> 5]]]

\* chaser and target 1000 pixels apart, the Direct strategy: the target
\* heading for the chaser along the x axis and along a diagonal, heading
\* away from it, and crossing
ApartScenes ==
    {<<<<1200, 450, 0, 0>>, <<200, 450, 8, 0>>>>,
     <<<<1100, 750, 0, 0>>, <<300, 150, 4, 3>>>>,
     <<<<200, 450, 0, 0>>, <<1200, 450, -8, 0>>>>,
     <<<<1200, 450, 0, 0>>, <<200, 450, -8, 0>>>>,
     <<<<1200, 450, 0, 0>>, <<200, 450, 0, 8>>>>}

\* the target on an edge of the arena moving outward, the chaser at the
\* centre
OutwardTargets ==
    {<<1400, 450, 8, 0>>, <<0, 450, -8, 0>>, <<700, 900, 0, 8>>,
     <<700, 0, 0, -8>>, <<1400, 600, 1, 8>>, <<1400, 900, 8, 8>>}

PursuitInit ==
    \/ \E s \in ApartScenes : SceneWith(DefaultConfig, s[1], s[2], "direct")
    \/ \E t \in OutwardTargets :
          SceneWith(DefaultConfig, <<700, 450, 0, 0>>, t, "null")

PursuitNext ==
    \/ Start
    \/ Frame

PursuitSpec ==
    PursuitInit /\ [][PursuitNext]_vars /\ WF_vars(Start) /\ WF_vars(Frame)

---------------------------------------------------------------------------
(* The simulation left running, with a strategy chosen before the start:  *)
(* no pause, no reset and no control moved.  The browser runs every        *)
(* pending animation-frame callback and every pending timer, so the frame  *)
(* and the two restarts are weakly fair; nothing makes the user press      *)
(* start.                                                                  *)

RunningInit == \E name \in StrategyNames : InitWith(name)

RunningNext ==
    \/ Start
    \/ Frame
    \/ CaptureRestart
    \/ EscapeRestart

RunningSpec ==
    /\ RunningInit
    /\ [][RunningNext]_vars
    /\ WF_vars(Frame)
    /\ WF_vars(CaptureRestart)
    /\ WF_vars(EscapeRestart)

---------------------------------------------------------------------------
(* Properties of the simulation *)

\* the last step called Simulation.update and it went past the freeze test
UpdateRan == updateExit \in {"capture", "escape", "continue"}

\* the target is active and nearer to the chaser than captureDistance
InCaptureRange ==
    /\ ligeirinho.active
    /\ distance(frajola.position, ligeirinho.position)
           < FP(CONFIG.physics.captureDistance)

\* the target is strictly outside [-margin, width + margin] x
\* [-margin, height + margin]
OutsideExpanded ==
    LET margin == FP(CONFIG.physics.boundaryMargin)
    IN  \/ ligeirinho.position.x < -margin
        \/ ligeirinho.position.x > FP(CONFIG.canvas.width) + margin
        \/ ligeirinho.position.y < -margin
        \/ ligeirinho.position.y > FP(CONFIG.canvas.height) + margin

\* the target is on the edge of that rectangle
OnExpandedEdge ==
    LET margin == FP(CONFIG.physics.boundaryMargin)
    IN  /\ ~OutsideExpanded
        /\ \/ ligeirinho.position.x = -margin
           \/ ligeirinho.position.x = FP(CONFIG.canvas.width) + margin
           \/ ligeirinho.position.y = -margin
           \/ ligeirinho.position.y = FP(CONFIG.canvas.height) + margin

(* C1, as the specification states it: a reset issued while a delayed      *)
(* restart is pending cancels the restart, so that once reset has returned *)
(* no timer callback is left to recreate the agents, re-apply the          *)
(* strategy, count an attempt or clear an in-progress flag.                *)
C1_ResetCancelsRestart == lastOp = "reset" => timers = NoTimers

(* C2: one call of Simulation.update runs at most one of handleCapture and *)
(* handleEscape; capture is tested first, and on a frame where the capture *)
(* condition and the escape condition both hold only the capture is        *)
(* recorded: no escape is counted, no escape timer is set and hasEscaped   *)
(* has not counted an escape attempt.                                      *)
C2_CaptureFirst ==
    /\ [](/\ ~(captureInProgress /\ escapeInProgress)
          /\ timers.capture + timers.escape <= 1
          /\ (UpdateRan /\ InCaptureRange /\ OutsideExpanded) =>
                 /\ updateExit = "capture"
                 /\ captureInProgress
                 /\ timers = [capture |-> 1, escape |-> 0]
                 /\ ligeirinho.escapeAttempts = 0)
    /\ [][lastOp' \in {"start", "frame"} =>
             /\ (stats'.captures - stats.captures)
                   + (stats'.escapes - stats.escapes) \in {0, 1}
             /\ (timers'.capture - timers.capture)
                   + (timers'.escape - timers.escape) \in {0, 1}
             /\ (UpdateRan /\ InCaptureRange /\ OutsideExpanded)' =>
                    /\ stats'.captures = stats.captures + 1
                    /\ stats'.escapes = stats.escapes]_vars

\* a frame has just captured a target that had left the expanded rectangle
C2_CaptureOutside ==
    /\ updateExit = "capture"
    /\ InCaptureRange
    /\ OutsideExpanded
    /\ stats.captures = 1
    /\ stats.escapes = 0

(* C3: from the frame on which a capture or an escape fires until the      *)
(* restart callback runs, every call of Simulation.update returns at its   *)
(* first test and leaves both agents (position, velocity, acceleration,    *)
(* targetDetected), the detection history and the strategies as they were; *)
(* the in-progress flag stays set until the callback, which recreates both *)
(* agents and clears the flag of its handler.                              *)
C3_FrozenUntilRestart ==
    /\ [](/\ timers.capture > 0 => captureInProgress
          /\ timers.escape > 0 => escapeInProgress)
    /\ [][/\ ((captureInProgress \/ escapeInProgress)
                  /\ (lastOp' = "start" \/ (lastOp' = "frame" /\ isRunning))) =>
                 /\ updateExit' = "frozen"
                 /\ frajola' = frajola
                 /\ ligeirinho' = ligeirinho
                 /\ detectionHistory' = detectionHistory
                 /\ strategies' = strategies
          /\ (captureInProgress /\ ~captureInProgress') =>
                 (lastOp' = "restart" /\ timers'.capture = timers.capture - 1)
          /\ (escapeInProgress /\ ~escapeInProgress') =>
                 (lastOp' = "restart" /\ timers'.escape = timers.escape - 1)
          /\ lastOp' = "restart" =>
                 /\ \E draw \in Spawns :
                       LET agents == createAgents(config, CONFIG, draw[1],
                                                  draw[2], draw[3])
                       IN  /\ ligeirinho' = agents.ligeirinho
                           /\ frajola' = setStrategy(agents.frajola,
                                                     currentStrategy)
                 /\ timers'.capture < timers.capture => ~captureInProgress'
                 /\ timers'.escape < timers.escape => ~escapeInProgress']_vars

\* a frame has just run while the restart after an escape was pending
C3_FrozenFrame ==
    /\ lastOp = "frame"
    /\ updateExit = "frozen"
    /\ escapeInProgress
    /\ timers.escape = 1

(* C4: on a frame whose update reaches the capture test, capture fires if  *)
(* and only if the target is active and its Euclidean distance to the      *)
(* chaser is strictly less than captureDistance, whether the chaser's      *)
(* targetDetected flag is true or false.                                   *)
C4_CaptureIffInRange ==
    /\ UpdateRan => (updateExit = "capture" <=> InCaptureRange)
    /\ updateExit = "capture" => (captureInProgress /\ timers.capture = 1)

\* a frame has just captured a target the chaser had not detected
C4_CaptureUndetected ==
    /\ updateExit = "capture"
    /\ InCaptureRange
    /\ ~frajola.targetDetected

(* C5: on a frame whose update reaches the escape test, escape fires if    *)
(* and only if the target lies strictly outside [-margin, width + margin]  *)
(* x [-margin, height + margin]; a target exactly on the edge of that      *)
(* rectangle has not escaped.  PhysicsEngine.isOutOfBounds is the same     *)
(* test.                                                                   *)
C5_EscapeIffStrictlyOutside ==
    /\ updateExit \in {"escape", "continue"} =>
          (updateExit = "escape" <=> OutsideExpanded)
    /\ updateExit = "escape" => (escapeInProgress /\ timers.escape = 1)
    /\ isOutOfBounds(ligeirinho, CONFIG) <=> OutsideExpanded

\* a frame has just left the target exactly on the edge, and no escape fired
C5_OnEdgeNoEscape ==
    /\ updateExit = "continue"
    /\ OnExpandedEdge
    /\ ~escapeInProgress

(* C6: within a frame that is not frozen, the detection result is computed *)
(* from the positions the frame starts with and stored in targetDetected   *)
(* before calculate reads it, so that calculate works with this frame's    *)
(* flag; both agents are integrated before the capture and escape tests,   *)
(* which read the positions the integration left.                          *)
C6_FrameOrder ==
    [][UpdateRan' =>
         LET name == frajola.strategy
             seen(flag) == [frajola EXCEPT !.targetDetected = flag]
         IN  \E flag \in {distance(frajola.position, ligeirinho.position)
                              <= RDiv(frajola.detectionRadius * sensitivity, 100)} :
             \E c \in {IF name = "null"
                         THEN [steering |-> NULL, strategy |-> NULL]
                         ELSE calculate(name, strategies[name], seen(flag),
                                        ligeirinho, flag, CONFIG)} :
             \E moved \in {constrainToBounds(
                               AgentUpdate(IF name = "null" THEN seen(flag)
                                           ELSE applyForce(seen(flag), c.steering),
                                           1),
                               CONFIG)} :
                 /\ frajola'.targetDetected = flag
                 /\ name # "null" => strategies'[name] = c.strategy
                 /\ frajola'.position = moved.position
                 /\ frajola'.velocity = moved.velocity
                 /\ ligeirinho'.position = AgentUpdate(ligeirinho, 1).position
                 /\ (updateExit' = "capture") = InCaptureRange'
                 /\ (updateExit' = "escape") = (~InCaptureRange' /\ OutsideExpanded')
    ]_vars

\* a frame has just detected the target that the frame before had not, and
\* the Patrol strategy has gone over to pursuit on it
C6_FlagOfThisFrame ==
    /\ UpdateRan
    /\ frajola.strategy = "patrol"
    /\ frajola.targetDetected
    /\ strategies.patrol.state = "pursue"
    /\ Len(detectionHistory) >= 2
    /\ ~detectionHistory[Len(detectionHistory) - 1]

(* C7, as the specification states it: after every call of                 *)
(* PatrolStrategy.calculate the state is 'pursue' if targetDetected was    *)
(* true on the call and 'patrol' otherwise.                                *)
C7_StateFollowsFlag ==
    (~IsNull(call) /\ call.strategy = "patrol") =>
        strategies.patrol.state
            = (IF call.targetDetected THEN "pursue" ELSE "patrol")

(* C7, amended: after every call of calculate on an active Patrol strategy *)
(* the state is 'pursue' if targetDetected was true on the call and        *)
(* 'patrol' otherwise, whatever it was before; a deactivated strategy      *)
(* returns before updateState and keeps the state it had.                  *)
C7_ActiveStateFollowsFlag ==
    (~IsNull(call) /\ call.strategy = "patrol") =>
        strategies.patrol.state
            = (IF ~call.before.active THEN call.before.state
               ELSE IF call.targetDetected THEN "pursue" ELSE "patrol")

\* an active Patrol strategy in pursuit has just been called with
\* targetDetected false
C7_PursuitDropped ==
    /\ ~IsNull(call)
    /\ call.strategy = "patrol"
    /\ call.before.active
    /\ call.before.state = "pursue"
    /\ ~call.targetDetected
    /\ strategies.patrol.state = "patrol"

(* C8, as the specification states it: when a new attempt starts (the      *)
(* agents recreated by the restart callback or by reset) the simulation    *)
(* has reset the Patrol strategy: its state is 'patrol' and its patrolTime *)
(* is 0.                                                                   *)
C8_PatrolResetAtNewAttempt ==
    lastOp \in {"restart", "reset"} =>
        /\ strategies.patrol.state = "patrol"
        /\ strategies.patrol.patrolTime = 0

(* C9: a call of calculate on an active Patrol strategy with               *)
(* targetDetected false advances patrolTime by exactly 1 (the angle by     *)
(* angularSpeed), up to 100 such calls; a call that steers in pursue mode  *)
(* leaves patrolTime as it was.                                            *)
C9_PatrolTimeAdvances ==
    (~IsNull(call) /\ call.strategy = "patrol" /\ call.before.active) =>
        /\ ~call.targetDetected =>
              /\ strategies.patrol.patrolTime = call.before.patrolTime + 1
              /\ strategies.patrol.patrolTime * strategies.patrol.angularSpeed
                    = call.before.patrolTime * call.before.angularSpeed
                         + call.before.angularSpeed
        /\ (call.targetDetected /\ call.target # "null") =>
              /\ strategies.patrol.patrolTime = call.before.patrolTime
              /\ call.steering = pursueBehavior(frajola, ligeirinho)

\* the hundredth undetected call
C9_HundredthCall ==
    /\ ~IsNull(call)
    /\ call.strategy = "patrol"
    /\ call.before.active
    /\ ~call.targetDetected
    /\ call.before.patrolTime = 99
    /\ strategies.patrol.patrolTime = 100

SeekTowards(pos) ==
    seek(frajola.position, frajola.velocity, pos, frajola.maxSpeed,
         frajola.maxForce)

\* the last call was calculate on the active strategy name, with a target
CalledWithTarget(name) ==
    /\ ~IsNull(call)
    /\ call.strategy = name
    /\ call.before.active
    /\ call.target # "null"

(* C11: DirectStrategy.calculate returns the same force whether            *)
(* targetDetected is true or false: for the same chaser and target it is   *)
(* seek towards the target's current position in both cases.               *)
C11_DirectIgnoresFlag ==
    CalledWithTarget("direct") =>
        /\ call.steering = SeekTowards(ligeirinho.position)
        /\ strategies.direct = call.before

\* the Direct strategy has just steered towards a target not detected
C11_DirectUndetected ==
    /\ CalledWithTarget("direct")
    /\ ~call.targetDetected
    /\ call.steering # Zero

\* the adaptive lookahead for the distance between the chaser and the target
LookaheadNow ==
    calculateAdaptiveLookahead(distance(frajola.position, ligeirinho.position))

\* the target's position plus its velocity times that lookahead
UnclampedPrediction ==
    Vec(ligeirinho.position.x + RDiv(ligeirinho.velocity.x * LookaheadNow, SCALE),
        ligeirinho.position.y + RDiv(ligeirinho.velocity.y * LookaheadNow, SCALE))

\* the point of [0, width] x [0, height] nearest to v
IntoArena(v) ==
    Vec(Min(Max(v.x, 0), FP(CONFIG.canvas.width)),
        Min(Max(v.y, 0), FP(CONFIG.canvas.height)))

(* C12: PredictiveStrategy.calculate seeks the predicted position (the     *)
(* target's position plus its velocity times the lookahead, clamped into   *)
(* [0, width] x [0, height]) when targetDetected is true, and the target's *)
(* current position, not clamped, when targetDetected is false.            *)
C12_PredictiveSeeksPrediction ==
    CalledWithTarget("predictive") =>
        /\ call.targetDetected =>
              call.steering = SeekTowards(IntoArena(UnclampedPrediction))
        /\ ~call.targetDetected =>
              call.steering = SeekTowards(ligeirinho.position)
        /\ strategies.predictive = call.before

\* the Predictive strategy has just steered towards an undetected target
\* that is outside the arena, and not towards the nearest point of the arena
C12_UndetectedOutsideArena ==
    /\ CalledWithTarget("predictive")
    /\ ~call.targetDetected
    /\ IntoArena(ligeirinho.position) # ligeirinho.position
    /\ call.steering # SeekTowards(IntoArena(ligeirinho.position))

\* a frame run from this state has the Predictive strategy steer towards
\* the predicted position of a detected, moving target
PredictionDue ==
    /\ ~IsNull(frajola) /\ ~IsNull(ligeirinho)
    /\ ~Frozen(captureInProgress, escapeInProgress)
    /\ frajola.active /\ frajola.target # "null"
    /\ frajola.strategy = "predictive" /\ strategies.predictive.active
    /\ detect(frajola, ligeirinho, sensitivity, detectionHistory).detected
    /\ ligeirinho.velocity # Zero

\* the displacement from the target to the position that frame predicts,
\* times the target's velocity
PredictionAlongVelocity ==
    dot(subtract(predictFuturePosition(ligeirinho, LookaheadNow, CONFIG),
                 ligeirinho.position),
        ligeirinho.velocity)

\* the target is inside the arena and on none of its edges
StrictlyInsideArena ==
    /\ 0 < ligeirinho.position.x
    /\ ligeirinho.position.x < FP(CONFIG.canvas.width)
    /\ 0 < ligeirinho.position.y
    /\ ligeirinho.position.y < FP(CONFIG.canvas.height)

SampleDistances ==
    {FP(10 * k) : k \in 0..50} \cup {FP(400) - 1, FP(400) + 1, 1}

(* C14: the adaptive lookahead of the Predictive strategy is monotonically *)
(* non-decreasing in the distance d to the target, equals 3 at d = 0 and   *)
(* 20 at d = 400, and stays within [3, 20] for every d >= 0 (distances     *)
(* above 400 give 20).                                                     *)
C14_LookaheadMonotoneBounded ==
    CalledWithTarget("predictive") =>
        /\ FP(3) <= LookaheadNow /\ LookaheadNow <= FP(20)
        /\ distanceTo(frajola, ligeirinho) = 0 => LookaheadNow = FP(3)
        /\ distanceTo(frajola, ligeirinho) >= FP(400) => LookaheadNow = FP(20)
        /\ calculateAdaptiveLookahead(0) = FP(3)
        /\ calculateAdaptiveLookahead(FP(400)) = FP(20)
        /\ \A e \in SampleDistances :
              /\ e <= distanceTo(frajola, ligeirinho)
                    => calculateAdaptiveLookahead(e) <= LookaheadNow
              /\ e >= distanceTo(frajola, ligeirinho)
                    => calculateAdaptiveLookahead(e) >= LookaheadNow

\* the Predictive strategy has predicted the position of a detected target
\* more than 400 pixels away
C14_BeyondFourHundred ==
    /\ CalledWithTarget("predictive") /\ call.targetDetected
    /\ distanceTo(frajola, ligeirinho) > FP(400)
    /\ LookaheadNow = FP(20)

(* C20: the steering force returned by calculate of every strategy         *)
(* (Direct, Predictive, Patrol in both of its modes) has magnitude at most *)
(* the chaser's maxForce, so the acceleration the chaser takes from it in  *)
(* one frame is at most maxForce / mass.                                   *)
C20_ForceWithinMaxForce ==
    ~IsNull(call) =>
        /\ magnitude(call.steering) <= frajola.maxForce
        /\ magnitude(applyForce([frajola EXCEPT !.acceleration = Zero],
                                call.steering).acceleration) * frajola.mass
               <= frajola.maxForce

\* the Patrol strategy, patrolling, has returned a force that limit cut to
\* maxForce
C20_PatrolForceCut ==
    /\ ~IsNull(call) /\ call.strategy = "patrol" /\ call.before.active
    /\ ~call.targetDetected
    /\ call.steering = patrolBehavior(call.before, frajola)
    /\ magnitude(call.steering) >= frajola.maxForce - 1
    /\ call.steering # Zero

\* the state is the one a direct call of detect left
DetectCalled == lastOp = "detect" /\ ~IsNull(detectCall)

\* the call was handed both agents and an active target
DetectHadAgents ==
    detectCall.chaser = "frajola" /\ detectCall.target = "ligeirinho"

(* C15: with the radius method, detect(chaser, target) returns true if and *)
(* only if both agents exist, the target is active and their Euclidean     *)
(* distance is at most detectionRadius x sensitivity, a distance equal to  *)
(* that radius included; when an agent is missing or the target is         *)
(* inactive it returns false at once, the history left as it was.          *)
C15_DetectedIffWithinRadius ==
    DetectCalled =>
        /\ detectCall.detected <=>
              /\ DetectHadAgents
              /\ distanceTo(frajola, ligeirinho) * 100
                     <= frajola.detectionRadius * sensitivity
        /\ ~DetectHadAgents => detectionHistory = detectCall.before

\* detect has returned true for a target whose distance equals the
\* effective radius
C15_DetectedOnRadius ==
    /\ DetectCalled /\ DetectHadAgents /\ detectCall.detected
    /\ distanceTo(frajola, ligeirinho) * 100
           = frajola.detectionRadius * sensitivity

(* C16: every call of DetectionSystem.detect, whatever its arguments,      *)
(* appends exactly one entry to the detection history, and that entry is   *)
(* the boolean the call returns.                                           *)
C16_EveryCallAppends ==
    DetectCalled =>
        /\ Len(detectionHistory) > 0
        /\ detectionHistory[Len(detectionHistory)] = detectCall.detected
        /\ \/ detectionHistory = Append(detectCall.before, detectCall.detected)
           \/ /\ Len(detectCall.before) = maxHistoryLength
              /\ detectionHistory =
                     Append(Tail(detectCall.before), detectCall.detected)

(* C17: the detection history never holds more than its capacity of 60     *)
(* entries; an append to a full history evicts the oldest entry and keeps  *)
(* the order of the rest, so that the history is the most recent (at most  *)
(* 60) recorded results in call order; reset empties it.                   *)
C17_HistoryBounded ==
    /\ Len(detectionHistory) <= maxHistoryLength
    /\ (DetectCalled /\ DetectHadAgents) =>
          detectionHistory =
              IF Len(detectCall.before) < maxHistoryLength
              THEN detectCall.before \o <<detectCall.detected>>
              ELSE SubSeq(detectCall.before, 2, maxHistoryLength)
                       \o <<detectCall.detected>>
    /\ lastOp = "detectionReset" => detectionHistory = <<>>

\* a result has been appended to a full history of detections followed by
\* misses, and the oldest detection evicted
C17_OldestEvicted ==
    /\ DetectCalled /\ DetectHadAgents
    /\ Len(detectCall.before) = maxHistoryLength
    /\ detectCall.before[1] /\ detectCall.before[2]
    /\ ~detectCall.before[maxHistoryLength]
    /\ Len(detectionHistory) = maxHistoryLength
    /\ detectionHistory[1] = detectCall.before[2]
    /\ detectionHistory[maxHistoryLength - 1] = detectCall.before[maxHistoryLength]

(* C18: the detection sensitivity lies within [minSensitivity,             *)
(* maxSensitivity] = [0.3, 1.5] in every reachable state, being clamped on *)
(* every assignment: by setSensitivity, and at construction for the value  *)
(* taken from the configuration.                                           *)
C18_SensitivityInRange ==
    /\ CONFIG.detection.minSensitivity <= sensitivity
    /\ sensitivity <= CONFIG.detection.maxSensitivity

(* C19: immediately after every integration step of the target            *)
(* (Ligeirinho.update) the magnitude of its velocity equals its maxSpeed   *)
(* (to the last digit kept), whatever force was applied to it before the   *)
(* step and whatever velocity it had.                                      *)
C19_SpeedIsMaxSpeed ==
    lastOp = "targetUpdate" =>
        Abs(magnitude(ligeirinho.velocity) - ligeirinho.maxSpeed) <= 1

(* C21: a configuration update or import whose values fail validation     *)
(* (non-positive canvas size, agent size or speed, or out-of-range values) *)
(* returns false and leaves the configuration exactly as it was before the *)
(* call.                                                                   *)
C21_InvalidConfigRejected ==
    (~IsNull(configCall) /\ ~validateConfig(configCall.requested)
        /\ validateConfig(configCall.before)) =>
        /\ ~configCall.ok
        /\ CONFIG = configCall.before

\* one of the agents handed to the call recorded in c had active = false
InactivePassed(c) ==
    \/ c.chaser = "frajola" /\ ~frajola.active
    \/ c.target = "ligeirinho" /\ ~ligeirinho.active
    \/ c.target = "inactive"

(* C22: an inactive agent, chaser or target, never takes part in detection *)
(* or capture: DetectionSystem.detect and CollisionDetector.checkCapture   *)
(* return false whenever the chaser or the target has active = false.      *)
C22_InactiveExcluded ==
    /\ (lastOp = "detect" /\ InactivePassed(detectCall))
           => ~detectCall.detected
    /\ (lastOp = "checkCapture" /\ InactivePassed(captureCall))
           => ~captureCall.captured

\* the agents start from rest 1000 pixels apart with the Direct strategy
\* on the chaser (maxSpeed 9, the target's 8, captureDistance 60)
ApartWithDirect ==
    /\ lastOp = "init"
    /\ frajola.strategy = "direct"
    /\ distanceTo(frajola, ligeirinho) = FP(1000)
    /\ frajola.maxSpeed = FP(9) /\ ligeirinho.maxSpeed = FP(8)
    /\ CONFIG.physics.captureDistance = 60

\* the target's velocity points at the chaser
HeadsForChaser ==
    /\ dot(ligeirinho.velocity,
           subtract(frajola.position, ligeirinho.position)) > 0
    /\ ligeirinho.velocity.x * (frajola.position.y - ligeirinho.position.y)
           = ligeirinho.velocity.y * (frajola.position.x - ligeirinho.position.x)

ApartHeadOn == ApartWithDirect /\ HeadsForChaser

OutwardStationary ==
    /\ lastOp = "init"
    /\ frajola.strategy = "null" /\ frajola.velocity = Zero
    /\ ligeirinho.maxSpeed = FP(8)
    /\ magnitudeSquared(ligeirinho.velocity) >= FP(8) * FP(8)
    /\ distanceTo(frajola, ligeirinho) > frajola.detectionRadius
    /\ \/ /\ ligeirinho.position.x = FP(CONFIG.canvas.width)
          /\ ligeirinho.velocity.x > 0
       \/ /\ ligeirinho.position.x = 0
          /\ ligeirinho.velocity.x < 0
       \/ /\ ligeirinho.position.y = FP(CONFIG.canvas.height)
          /\ ligeirinho.velocity.y > 0
       \/ /\ ligeirinho.position.y = 0
          /\ ligeirinho.velocity.y < 0

\* update has fired escape with no capture recorded; detect has appended
\* one entry for every frame run, fewer than the history holds and no more
\* than width / 8
EscapedUncaptured ==
    /\ updateExit = "escape"
    /\ escapeInProgress /\ ~captureInProgress
    /\ stats.captures = 0 /\ stats.escapes = 1
    /\ Len(detectionHistory) < maxHistoryLength
    /\ Len(detectionHistory) * 8 <= CONFIG.canvas.width

(* C24: with the target at an arena edge moving outward at speed 8 and the *)
(* chaser stationary and far away, escape fires after a bounded number of  *)
(* frames, at most width / 8, and no capture fires before it.              *)
C24_OutwardEscapes ==
    OutwardStationary => <>EscapedUncaptured

\* escape has fired on the thirteenth frame for a stationary chaser with no
\* strategy
C24_EscapeFired ==
    /\ updateExit = "escape"
    /\ frajola.strategy = "null"
    /\ frajola.position = Vec(FP(700), FP(450))
    /\ ligeirinho.escapeAttempts = 1
    /\ stats.captures = 0
    /\ Len(detectionHistory) = 13


(* C25: at most one chain of requestAnimationFrame callbacks is live, so   *)
(* that Simulation.update runs at most once per animation frame and a      *)
(* callback scheduled before a pause does not loop again after a start.    *)
C25_OneFrameChain ==
    rafPending <= 1


(* C26: whenever Simulation.update has simulated a frame, the chaser's     *)
(* strategy is the currently selected one: agents created at init, by a    *)
(* delayed restart or by reset are never simulated with no strategy.       *)
C26_StrategySetBeforeFrame ==
    UpdateRan => (frajola.strategy # "null" /\ frajola.strategy = currentStrategy)


(* C27: the attempt counter equals the number of recorded outcomes         *)
(* (captures + escapes) plus at most one attempt in progress, so that the  *)
(* escapes figure of getStats, attempts - captures, exceeds the recorded   *)
(* escapes by at most one.                                                 *)
C27_AttemptsTrackOutcomes ==
    /\ stats.attempts - (stats.captures + stats.escapes) \in {0, 1}
    /\ (stats.attempts - stats.captures) - stats.escapes <= 1


(* C28: captureInProgress and escapeInProgress are never both true, at     *)
(* most one delayed restart timer is pending, and a restart timer is       *)
(* pending exactly when one of the two flags is true.                      *)
C28_OneRestartPending ==
    /\ ~(captureInProgress /\ escapeInProgress)
    /\ timers.capture + timers.escape <= 1
    /\ (timers.capture + timers.escape > 0)
           <=> (captureInProgress \/ escapeInProgress)


\* reset has run while the timer of handleEscape was pending: the timer
\* and the flag are both still there
C28_EscapeTimerAcrossReset ==
    /\ lastOp = "reset"
    /\ escapeInProgress /\ ~captureInProgress
    /\ timers = [capture |-> 0, escape |-> 1]


(* C30: while the simulation is paused (isRunning false), a callback that  *)
(* fires, an animation frame or a delayed restart timer, leaves the agents *)
(* and the statistics counters unchanged.                                  *)
C30_PausedStaysPut ==
    [][(~isRunning /\ lastOp' \in {"frame", "restart"})
          => UNCHANGED <<frajola, ligeirinho, stats>>]_vars


\* the loop is running an attempt: no outcome is being handled
AttemptRunning == isRunning /\ ~captureInProgress /\ ~escapeInProgress

\* update has fired capture or escape and the restart is still to come
AttemptOver == captureInProgress \/ escapeInProgress

\* an attempt is over and the attempt counter has not reached its bound
RestartDue == AttemptOver /\ stats.attempts < MaxAttempts

\* the delayed restart has run
Restarted == lastOp = "restart" /\ stats.attempts >= 2

(* C29: while the simulation keeps running, with frames and timers firing  *)
(* and no pause or reset, every attempt eventually ends in capture or      *)
(* escape, and after the outcome a new attempt eventually starts.          *)
C29_AttemptsEndAndRestart ==
    /\ AttemptRunning ~> AttemptOver
    /\ RestartDue ~> Restarted

\* the second attempt of a running simulation has ended in escape
C29_SecondAttemptEscaped ==
    /\ isRunning
    /\ updateExit = "escape"
    /\ stats.attempts = 2
    /\ stats.escapes >= 1

=============================================================================
